---- MODULE Spec2Model ----
(***************************************************************************)
(* Model of the insurance-document intake frontend.                        *)
(*                                                                         *)
(* Spec / FairSpec : the quality-control flow.  QCUploadPage.handleSubmit  *)
(*   posts the three PDFs and navigates to the review page; QCReviewPage   *)
(*   polls the status endpoint from a useEffect keyed on pollCount.  Both  *)
(*   review pages of the repository are modelled: the one reached from     *)
(*   the upload page (secondary deadline for flagged_results) and the one  *)
(*   under app/qc/review/[uploadId].                                       *)
(*                                                                         *)
(* SummarySpec : the multi-carrier upload page.  SummaryPage keeps the      *)
(*   carrier list, validates it in handleExecute, builds the multipart     *)
(*   form data and posts it to /upload-quotes/, and handleConfirmExecution *)
(*   asks for the quality analysis before it navigates to the confirmed    *)
(*   page.  CarrierListSpec is the carrier list under its editing handlers *)
(*   alone.                                                                *)
(*                                                                         *)
(* AuthSpec : AuthProvider in two browser tabs.  Each tab has its own      *)
(*   sessionStorage; the mount effect reads it, login and register write   *)
(*   it on a successful response, logout removes the entry.  GuardSpec     *)
(*   adds DashboardPage and its route guard to the provider.               *)
(*                                                                         *)
(* React semantics used: a state setter called after the component has     *)
(* unmounted has no effect; an effect without a cleanup function leaves    *)
(* its timers and fetch continuations alive after unmount; an effect       *)
(* re-runs when one of its dependencies changed; the effects of one commit *)
(* run with the values of its render, a child's before its parent's.       *)
(***************************************************************************)
EXTENDS Integers, Sequences, FiniteSets, TLC

(***************************************************************************)
(* Program constants                                                       *)
(***************************************************************************)
\* if (response.status === 404 && pollCount < 60), catch: if (pollCount < 60)
FirstDeadline == 60
\* else if (pollCount < 120), both for flagged results and for initial results
SecondaryDeadline == 120
\* app/qc/review/[uploadId]: every branch compares pollCount with 60
ReviewDeadline == 60

(***************************************************************************)
(* HTTP responses of the status endpoint, as far as fetchResults looks at  *)
(* them.  net = "fail": fetch rejected.  body: "garbage" makes             *)
(* response.json() throw, "null" is the JSON value null, "json" an object  *)
(* with the fields success, data, data.llm_results, data.flagged_results.  *)
(***************************************************************************)
Resp(net, status, body, success, hasData, llm, flagged) ==
    [net |-> net, status |-> status, body |-> body, success |-> success,
     hasData |-> hasData, llm |-> llm, flagged |-> flagged]

NullResult == Resp("none", 0, "none", FALSE, FALSE, FALSE, "absent")
NetFail == Resp("fail", 0, "none", FALSE, FALSE, FALSE, "absent")
HttpError(status) == Resp("ok", status, "none", FALSE, FALSE, FALSE, "absent")
Garbage200 == Resp("ok", 200, "garbage", FALSE, FALSE, FALSE, "absent")
Null200 == Resp("ok", 200, "null", FALSE, FALSE, FALSE, "absent")
Json200(success, hasData, llm, flagged) ==
    Resp("ok", 200, "json", success, hasData, llm, flagged)

\* One response of every class the branches of fetchResults tell apart, and
\* bodies that carry payloads without the success flag or without data.
StatusResponses ==
    {NetFail, HttpError(404), HttpError(500), Garbage200, Null200}
    \cup {Json200(s, FALSE, FALSE, "absent") : s \in BOOLEAN}
    \cup {Json200(FALSE, TRUE, TRUE, "nonempty")}
    \cup {Json200(TRUE, TRUE, FALSE, f) : f \in {"absent", "nonempty"}}
    \cup {Json200(TRUE, TRUE, TRUE, f) : f \in {"absent", "empty", "nonempty"}}

\* response.ok
Ok(r) == r.net = "ok" /\ r.status = 200

\* What one run of the fetch continuation does: which setters it calls and
\* whether it creates a timer.
Outcome(timer, setRes, err) == [timer |-> timer, setRes |-> setRes, err |-> err]
KeepPolling == Outcome(TRUE, FALSE, "")
\* Faulty variant: the resolving branch also schedules the next poll.
ResolveAndPollOn == Outcome(TRUE, TRUE, "")
\* setResults(data); setLoading(false);
Resolve == Outcome(FALSE, TRUE, "")
Fail(msg) == Outcome(FALSE, FALSE, msg)
Nothing == Outcome(FALSE, FALSE, "")

\* err instanceof Error ? err.message : 'Failed to load results'
ThrownMessage(r) ==
    IF r.net = "fail" THEN "Failed to fetch"
    ELSE IF ~Ok(r) THEN "Failed to fetch results"
    ELSE IF r.body = "garbage" THEN "Unexpected token in JSON"
    ELSE "Cannot read properties"

\* The try block throws: fetch rejected, non-ok status that is not a 404
\* below the first deadline, response.json() failed, data is null, or
\* data.success is truthy while data.data is missing.
Throws(r, p) ==
    \/ r.net = "fail"
    \/ ~Ok(r) /\ ~(r.status = 404 /\ p < FirstDeadline)
    \/ Ok(r) /\ r.body \in {"garbage", "null"}
    \/ Ok(r) /\ r.body = "json" /\ r.success /\ ~r.hasData

\* Faulty variant: the success flag is not looked at.
HasPrimaryIgnoringSuccess(r) == Ok(r) /\ r.body = "json" /\ r.hasData /\ r.llm

\* data.success && data.data.llm_results
HasPrimary(r) == Ok(r) /\ r.body = "json" /\ r.success /\ r.hasData /\ r.llm

\* Faulty variant: an empty flagged_results object counts as the secondary payload.
HasSecondaryAllowingEmpty(r) == r.flagged \in {"empty", "nonempty"}

\* data.data.flagged_results && Object.keys(data.data.flagged_results).length > 0
HasSecondary(r) == r.flagged = "nonempty"

\* Faulty variant: the catch block never retries.
catchBlockNoRetry(r, p) == Fail(ThrownMessage(r))

\* catch (err) { if (pollCount < 60) retry else setError; setLoading(false) }
catchBlock(r, p) ==
    IF p < FirstDeadline THEN KeepPolling ELSE Fail(ThrownMessage(r))

\* Faulty variant: at the secondary deadline the primary payload is dropped and the
\* page reports a timeout.
fetchResultsDropsPrimary(r, p) ==
    IF Throws(r, p) THEN catchBlock(r, p)
    ELSE IF ~Ok(r) THEN KeepPolling
    ELSE IF HasPrimary(r) /\ HasSecondary(r) THEN Resolve
    ELSE IF p < SecondaryDeadline THEN KeepPolling
    ELSE Fail("Processing timeout - no results available")

\* Faulty variant: a 2xx response without the payload uses the first deadline.
fetchResultsOneDeadline(r, p) ==
    IF Throws(r, p) THEN catchBlock(r, p)
    ELSE IF ~Ok(r) THEN KeepPolling
    ELSE IF HasPrimary(r)
         THEN IF HasSecondary(r) THEN Resolve
              ELSE IF p < SecondaryDeadline THEN KeepPolling
              ELSE Resolve
    ELSE IF p < FirstDeadline THEN KeepPolling
    ELSE Fail("Processing timeout - no results available")

\* Faulty variant: the final else branch is missing, as in app/qc/review/[uploadId].
fetchResultsNoTimeoutBranch(r, p) ==
    IF Throws(r, p) THEN catchBlock(r, p)
    ELSE IF ~Ok(r) THEN KeepPolling
    ELSE IF HasPrimary(r)
         THEN IF HasSecondary(r) THEN Resolve
              ELSE IF p < SecondaryDeadline THEN KeepPolling
              ELSE Resolve
    ELSE IF p < SecondaryDeadline THEN KeepPolling
    ELSE Nothing

\* QCReviewPage.fetchResults of the page reached from the upload page, run
\* on response r by the closure that captured pollCount = p.
fetchResults(r, p) ==
    IF Throws(r, p) THEN catchBlock(r, p)
    ELSE IF ~Ok(r) THEN KeepPolling
    ELSE IF HasPrimary(r)
         THEN IF HasSecondary(r) THEN Resolve
              ELSE IF p < SecondaryDeadline THEN KeepPolling
              ELSE Resolve
    ELSE IF p < SecondaryDeadline THEN KeepPolling
    ELSE Fail("Processing timeout - no results available")

\* The try block of the page under app/qc/review/[uploadId].
ThrowsReview(r, p) ==
    \/ r.net = "fail"
    \/ ~Ok(r) /\ ~(r.status = 404 /\ p < ReviewDeadline)
    \/ Ok(r) /\ r.body \in {"garbage", "null"}
    \/ Ok(r) /\ r.body = "json" /\ r.success /\ ~r.hasData

\* Its catch block.
catchBlockReview(r, p) ==
    IF p < ReviewDeadline THEN KeepPolling ELSE Fail(ThrownMessage(r))

\* QCReviewPage.fetchResults of app/qc/review/[uploadId]: it resolves on the
\* primary payload alone, and a 2xx response without it at pollCount >= 60
\* falls through both branches.
fetchResultsReview(r, p) ==
    IF ThrowsReview(r, p) THEN catchBlockReview(r, p)
    ELSE IF ~Ok(r) THEN KeepPolling
    ELSE IF HasPrimary(r) THEN Resolve
    ELSE IF p < ReviewDeadline THEN KeepPolling
    ELSE Nothing

\* The continuation the mounted page runs.
Continuation(v, r, p) ==
    IF v = "reviewQc" THEN fetchResultsReview(r, p) ELSE fetchResults(r, p)

\* A response that says "not ready yet": a 404, or a parsed 2xx body that
\* lacks the primary payload.
NotReady(r) ==
    \/ r.net = "ok" /\ r.status = 404
    \/ Ok(r) /\ r.body = "json" /\ ~HasPrimary(r) /\ ~(r.success /\ ~r.hasData)

\* Responses of the upload endpoint as handleSubmit distinguishes them.
UploadResponses == {"neterr", "status500", "garbage", "null", "noid", "id"}
QCFields == {"policy", "property_cert", "gl_cert"}

\* What localStorage may hold under the key 'username' ("" if no such item);
\* no code of the repository writes that key.
LocalUsernames == {"", "aamir"}

\* localStorage.getItem('username') || 'qc_user'
SentUsername(stored) == IF stored = "" THEN "qc_user" ELSE stored

\* The upload request handleSubmit sends: the form fields that carry a file
\* and the 'username' field.
QCRequest(fs, stored) == [sent |-> TRUE, fields |-> fs, username |-> SentUsername(stored)]

NoQCRequest == [sent |-> FALSE, fields |-> {}, username |-> ""]


(***************************************************************************)
(* SummaryPage: bounds and input domains                                   *)
(***************************************************************************)
MaxCarriers == 2
MaxId == 3
Usernames == {"mudassir", "aamir"}
CarrierNames == {"", " ", "State Farm"}
PdfFiles == {"a.pdf", "b.pdf"}

\* name.trim() for the names of CarrierNames
Trim(name) == IF name = " " THEN "" ELSE name

\* { id, name: '', propertyPDF: { file: null, name: '' }, liabilityPDF: ... };
\* a PDF slot is modelled by its file name, "" when file is null.
NewCarrier(id) == [id |-> id, name |-> "", propertyPDF |-> "", liabilityPDF |-> ""]

\* Faulty variant: the names are tested without trim().
isValidNoTrim(cs) == \A i \in 1..Len(cs) : cs[i].name # ""

\* carriers.every(c => c.name.trim())
isValid(cs) == \A i \in 1..Len(cs) : Trim(cs[i].name) # ""

\* carriers.some(c => c.propertyPDF.file || c.liabilityPDF.file)
hasAnyFiles(cs) == \E i \in 1..Len(cs) : cs[i].propertyPDF # "" \/ cs[i].liabilityPDF # ""

\* JSON.stringify({ carriers: carriers.map(c => ({ name, hasProperty, hasLiability })) })
\* The JSON text is modelled by the value it denotes: an array of objects of
\* one string and two booleans, which JSON.parse gives back as written.
carriersJson(cs) ==
    [i \in 1..Len(cs) |-> [name |-> cs[i].name,
                            hasProperty |-> cs[i].propertyPDF # "",
                            hasLiability |-> cs[i].liabilityPDF # ""]]

\* Faulty variant: the tags count the carriers from 1.
CarrierPartsOneBased(c, carrierIdx) ==
    (IF c.propertyPDF # ""
     THEN <<[file |-> c.propertyPDF, carrierIndex |-> carrierIdx + 1, type |-> "property"]>>
     ELSE <<>>)
    \o (IF c.liabilityPDF # ""
        THEN <<[file |-> c.liabilityPDF, carrierIndex |-> carrierIdx + 1, type |-> "liability"]>>
        ELSE <<>>)

\* Faulty variant: the liability file is appended before the property file.
CarrierPartsLiabilityFirst(c, carrierIdx) ==
    (IF c.liabilityPDF # ""
     THEN <<[file |-> c.liabilityPDF, carrierIndex |-> carrierIdx, type |-> "liability"]>>
     ELSE <<>>)
    \o (IF c.propertyPDF # ""
        THEN <<[file |-> c.propertyPDF, carrierIndex |-> carrierIdx, type |-> "property"]>>
        ELSE <<>>)

\* The 'files' / 'file_metadata' parts one carrier appends, property first.
CarrierParts(c, carrierIdx) ==
    (IF c.propertyPDF # ""
     THEN <<[file |-> c.propertyPDF, carrierIndex |-> carrierIdx, type |-> "property"]>>
     ELSE <<>>)
    \o (IF c.liabilityPDF # ""
        THEN <<[file |-> c.liabilityPDF, carrierIndex |-> carrierIdx, type |-> "liability"]>>
        ELSE <<>>)

\* carriers.forEach((carrier, carrierIdx) => ...): carrierIdx counts from 0.
RECURSIVE FileParts(_, _)
FileParts(cs, n) ==
    IF n = 0 THEN <<>> ELSE FileParts(cs, n - 1) \o CarrierParts(cs[n], n - 1)

\* headers of the fetch to /upload-quotes/
UploadHeaders(u) == {<<"ngrok-skip-browser-warning", "true">>}

\* The upload request handleExecute sends for carrier list cs and session
\* user u: the form data parts in append order, and the headers.
UploadRequest(cs, u) ==
    [sent |-> TRUE,
     carriers_json |-> carriersJson(cs),
     files |-> [k \in 1..Len(FileParts(cs, Len(cs))) |-> FileParts(cs, Len(cs))[k].file],
     file_metadata |-> [k \in 1..Len(FileParts(cs, Len(cs))) |->
                          [carrierIndex |-> FileParts(cs, Len(cs))[k].carrierIndex,
                           type |-> FileParts(cs, Len(cs))[k].type]],
     headers |-> UploadHeaders(u)]

NoRequest ==
    [sent |-> FALSE, carriers_json |-> <<>>, files |-> <<>>, file_metadata |-> <<>>,
     headers |-> {}]

\* Responses of /upload-quotes/.  net = "fail": fetch rejected; body "garbage"
\* makes response.json() throw, "null" is the JSON value null.
\* hasCarriers: the body lists the uploaded carriers (uploadResult.carriers).
UpResp(net, ok, body, success, uploadId, hasCarriers, message, error, detail) ==
    [net |-> net, ok |-> ok, body |-> body, success |-> success,
     uploadId |-> uploadId, hasCarriers |-> hasCarriers,
     message |-> message, error |-> error, detail |-> detail]

NoUploadResult == UpResp("none", FALSE, "none", FALSE, "", FALSE, "", "", "")

SummaryResponses ==
    {UpResp("fail", FALSE, "none", FALSE, "", FALSE, "", "", "")}
    \cup {UpResp("ok", ok, b, FALSE, "", FALSE, "", "", "") :
              ok \in BOOLEAN, b \in {"garbage", "null"}}
    \cup {UpResp("ok", TRUE, "json", TRUE, "u1", c, "", "", "") : c \in BOOLEAN}
    \cup {UpResp("ok", TRUE, "json", TRUE, "", TRUE, "", "", "")}
    \cup {UpResp("ok", TRUE, "json", FALSE, "", FALSE, "", "rejected", "")}
    \cup {UpResp("ok", FALSE, "json", FALSE, "", FALSE, "msg", "err", "det"),
          UpResp("ok", FALSE, "json", FALSE, "", FALSE, "", "err", "det"),
          UpResp("ok", FALSE, "json", FALSE, "", FALSE, "", "", "det"),
          UpResp("ok", FALSE, "json", FALSE, "", FALSE, "", "", "")}

\* Faulty variant: the error text prefers detail to error to message.
UploadThrowsDetailFirst(r) ==
    IF r.net = "fail" THEN "Failed to fetch"
    ELSE IF r.body = "garbage" THEN "body stream already read"
    ELSE IF r.ok THEN ""
    ELSE IF r.body = "null" THEN "Cannot read properties of null"
    ELSE IF r.detail # "" THEN r.detail
    ELSE IF r.error # "" THEN r.error
    ELSE IF r.message # "" THEN r.message
    ELSE "Upload failed (500)"

\* error.message || 'Failed to upload carriers' for what the try block of
\* handleExecute throws; "" when it does not throw.  After a failed
\* response.json() the body is consumed, so response.text() rejects.
UploadThrows(r) ==
    IF r.net = "fail" THEN "Failed to fetch"
    ELSE IF r.body = "garbage" THEN "body stream already read"
    ELSE IF r.ok THEN ""
    ELSE IF r.body = "null" THEN "Cannot read properties of null"
    ELSE IF r.message # "" THEN r.message
    ELSE IF r.error # "" THEN r.error
    ELSE IF r.detail # "" THEN r.detail
    ELSE "Upload failed (500)"

\* The quality-analysis request of handleConfirmExecution: GET
\* /phase1/quality-analysis?uploadId=..., with the upload id the server reads
\* from the query string.
AnalysisRequest(id) == [sent |-> TRUE, uploadId |-> id]
NoAnalysis == [sent |-> FALSE, uploadId |-> ""]

\* What the quality-analysis endpoint may answer: the answers of
\* SummaryResponses, and an error status whose body says success true.
AnalysisResponses ==
    SummaryResponses
    \cup {UpResp("ok", FALSE, "json", TRUE, "", FALSE, "", "", "")}

\* Faulty variant: the body's success field is not looked at.
ConfirmThrowsOkOnly(r) ==
    IF r.net = "fail" THEN "Failed to fetch"
    ELSE IF r.body = "garbage" THEN "Unexpected token in JSON"
    ELSE IF r.body = "null"
    THEN IF r.ok THEN "" ELSE "Cannot read properties of null"
    ELSE IF r.ok THEN ""
    ELSE IF r.message # "" THEN r.message
    ELSE IF r.error # "" THEN r.error
    ELSE IF r.detail # "" THEN r.detail
    ELSE "Quality analysis failed (500)"

\* error.message || 'Failed to confirm execution' for what the try block of
\* handleConfirmExecution throws after the request; "" when it does not
\* throw.  response.json() throws on an unparsable body, and reading a
\* property of a null body throws.
ConfirmThrows(r) ==
    IF r.net = "fail" THEN "Failed to fetch"
    ELSE IF r.body = "garbage" THEN "Unexpected token in JSON"
    ELSE IF r.body = "null" THEN "Cannot read properties of null"
    ELSE IF r.ok /\ r.success THEN ""
    ELSE IF r.message # "" THEN r.message
    ELSE IF r.error # "" THEN r.error
    ELSE IF r.detail # "" THEN r.detail
    ELSE "Quality analysis failed (500)"

(***************************************************************************)
(* AuthProvider: bounds, input domains and JSON conversion                 *)
(***************************************************************************)
Tabs == {"tab1", "tab2"}
MaxCalls == 1
TypedNames == {"Mudassir", "aamir"}

\* The value of a property that a JSON object does not have.
Undefined == "<undefined>"

\* useState<User | null>: null, or an object whose username may be missing.
NoUser == [isNull |-> TRUE, username |-> Undefined]
UserData(name) == [isNull |-> FALSE, username |-> name]

\* sessionStorage.getItem('user') when there is no such item.
NoItem == <<>>

\* JSON.stringify(userData), as the sequence of the text's tokens; a property
\* whose value is undefined is left out.
JsonStringify(v) ==
    IF v.isNull THEN <<"null">>
    ELSE IF v.username = Undefined THEN <<"{", "}">>
    ELSE <<"{", "\"username\"", ":", v.username, "}">>

\* JSON.parse(text) for the texts of StoredValues.
JsonParse(text) ==
    IF text = <<"null">> THEN [throws |-> FALSE, value |-> NoUser]
    ELSE IF text = <<"{", "}">> THEN [throws |-> FALSE, value |-> UserData(Undefined)]
    ELSE IF Len(text) = 5 /\ text[1] = "{" /\ text[2] = "\"username\""
            /\ text[3] = ":" /\ text[5] = "}"
    THEN [throws |-> FALSE, value |-> UserData(text[4])]
    ELSE [throws |-> TRUE, value |-> NoUser]

\* What the tab's storage may hold under the key 'user' when the page loads.
StoredValues ==
    {NoItem, <<"not json">>, <<"null">>, <<"{", "}">>}
    \cup {JsonStringify(UserData(u)) : u \in Usernames}

\* A call of login or register in flight, with the username typed.
Calls == [kind : {"login", "register"}, username : TypedNames]

\* Responses of /login/ and /register/.  net = "fail": fetch rejected; body
\* "garbage" makes response.json() throw, "null" is the JSON value null.
AuthResp(net, ok, body, username, detail) ==
    [net |-> net, ok |-> ok, body |-> body, username |-> username, detail |-> detail]

AuthResponses ==
    {AuthResp("fail", FALSE, "none", Undefined, "")}
    \cup {AuthResp("ok", TRUE, "json", u, "") : u \in Usernames \cup {Undefined}}
    \cup {AuthResp("ok", ok, b, Undefined, "") : ok \in BOOLEAN, b \in {"garbage", "null"}}
    \cup {AuthResp("ok", FALSE, "json", Undefined, d) : d \in {"Username already exists", ""}}

\* 'Login failed' / 'Registration failed'
Fallback(kind) == IF kind = "login" THEN "Login failed" ELSE "Registration failed"

\* The message of the Error that login / register rejects with on response r:
\* error.message || fallback of what the try block throws; "" when it does
\* not throw.
AuthThrows(kind, r) ==
    IF r.net = "fail" THEN "Failed to fetch"
    ELSE IF r.body = "garbage" THEN "Unexpected token in JSON"
    ELSE IF r.body = "null" THEN "Cannot read properties of null"
    ELSE IF r.ok THEN ""
    ELSE IF r.detail # "" THEN r.detail
    ELSE Fallback(kind)

\* No login or register call was settled by the step just taken.
NoCall == [tab |-> "", kind |-> "", username |-> "", raised |-> ""]

VARIABLES
    view,        \* the page of the current route: "upload", "review", "reviewQc"
    entry,       \* how the review page was reached: "upload" flow or "direct" URL
    files,       \* QCUploadPage files: the fields that hold a File
    qcLoading,   \* QCUploadPage loading
    qcError,     \* QCUploadPage error ("" is null)
    uploadReq,   \* the upload request: "none", "inflight", "done"
    uploadId,    \* route parameter of the review page ("" before navigation)
    mounted,     \* a review page is mounted
    loading, error, results, pollCount,   \* QCReviewPage state
    inflight,    \* pollCount values captured by the status requests in flight
    timers,      \* pending setTimeout callbacks
    nReq,        \* status requests issued so far
    handled,     \* the status response the step just taken handled and the
                 \* pollCount its closure saw (r = NullResult after other steps)
    onlyNotReady,\* every handled status response was a 404 or lacked the payload
    sawPrimary,  \* some handled status response carried the primary payload
    user,        \* useAuth().user: the session's username
    carriers, nextId, isExecuting, uploadResult, uploadError,  \* SummaryPage state
    alert,       \* the alert() the step just taken showed ("" if none)
    request,     \* the upload request the step just taken sent (NoRequest if none)
    pending,     \* the upload request is in flight
    route,       \* the route SummaryPage's router shows: "/summary" or "/summary/confirmed"
    analysis,    \* the quality-analysis request in flight (NoAnalysis if none)
    authMounted, \* per tab: the mount effect of AuthProvider has run
    authUser, isLoggedIn, authLoading,  \* per tab: AuthProvider user, isLoggedIn, loading
    sessionStorage,  \* per tab: the text stored under 'user' (NoItem if none)
    calls,       \* per tab: the login / register calls in flight
    guard,       \* per tab: DashboardPage and its route guard: "none" (not mounted),
                 \* "shown" (mounted), "redirect" (router.push('/login') issued)
    localUsername,  \* localStorage entry 'username' ("" if none)
    qcRequest,   \* the upload request QCUploadPage sent last (NoQCRequest if none)
    settled      \* the login / register call the step just taken settled and
                 \* the message it raised, or the logout it ran (NoCall after
                 \* other steps)

vars == <<view, entry, files, qcLoading, qcError, uploadReq, uploadId, mounted,
          loading, error, results, pollCount, inflight, timers, nReq, handled,
          onlyNotReady, sawPrimary, user, carriers, nextId, isExecuting, uploadResult,
          uploadError, alert, request, pending, authMounted, authUser,
          isLoggedIn, authLoading, sessionStorage, calls, settled,
          localUsername, qcRequest, route, analysis, guard>>

uploadVars == <<files, qcLoading, qcError, uploadReq, qcRequest>>
reviewVars == <<loading, error, results, pollCount, inflight, timers, nReq,
                handled, onlyNotReady, sawPrimary>>

qcVars == <<view, entry, uploadId, mounted, files, qcLoading, qcError, uploadReq,
           loading, error, results, pollCount, inflight, timers, nReq, handled,
           onlyNotReady, sawPrimary, localUsername, qcRequest>>
summaryVars == <<user, carriers, nextId, isExecuting, uploadResult, uploadError,
                alert, request, pending, route, analysis>>

authVars == <<authMounted, authUser, isLoggedIn, authLoading, sessionStorage,
             calls, settled, guard>>

\* Every tab has the session of user u, loaded, with no call in flight.
SignedIn(u) ==
    /\ authMounted = [t \in Tabs |-> TRUE]
    /\ authUser = [t \in Tabs |-> UserData(u)]
    /\ isLoggedIn = [t \in Tabs |-> TRUE]
    /\ authLoading = [t \in Tabs |-> FALSE]
    /\ sessionStorage = [t \in Tabs |-> JsonStringify(UserData(u))]
    /\ calls = [t \in Tabs |-> {}]
    /\ settled = NoCall
    /\ guard = [t \in Tabs |-> "none"]

\* useState initial values of SummaryPage.
SummaryState ==
    /\ carriers = <<NewCarrier(1)>>
    /\ nextId = 2
    /\ isExecuting = FALSE
    /\ uploadResult = NoUploadResult
    /\ uploadError = ""
    /\ alert = ""
    /\ request = NoRequest
    /\ pending = FALSE
    /\ route = "/summary"
    /\ analysis = NoAnalysis

\* useState initial values of the quality-control pages.
QCState ==
    /\ files = {}
    /\ qcLoading = FALSE
    /\ qcError = ""
    /\ uploadReq = "none"
    /\ qcRequest = NoQCRequest
    /\ mounted = FALSE
    /\ loading = TRUE
    /\ error = ""
    /\ results = NullResult
    /\ pollCount = 0
    /\ inflight = {}
    /\ timers = 0
    /\ nReq = 0
    /\ handled = [r |-> NullResult, pc |-> 0]
    /\ onlyNotReady = TRUE
    /\ sawPrimary = FALSE

\* The quality-control flow starts on the upload page or on a review URL
\* opened directly, which has its upload id in the route.
Init ==
    /\ view \in {"upload", "review", "reviewQc"}
    /\ entry = IF view = "upload" THEN "upload" ELSE "direct"
    /\ uploadId = IF view = "upload" THEN "" ELSE "u1"
    /\ localUsername \in IF view = "upload" THEN LocalUsernames ELSE {""}
    /\ QCState
    /\ user = "mudassir"
    /\ SummaryState
    /\ SignedIn(user)

\* err instanceof Error ? err.message : 'Upload failed'
UploadErrorMessage(u) ==
    IF u = "neterr" THEN "Failed to fetch"
    ELSE IF u = "status500" THEN "Upload failed"
    ELSE IF u = "garbage" THEN "Unexpected token in JSON"
    ELSE "Cannot read properties of null"

\* handleFileChange(field, file): file may be null.
handleFileChange ==
    /\ view = "upload"
    /\ \E field \in QCFields, present \in BOOLEAN :
          files' = IF present THEN files \cup {field} ELSE files \ {field}
    /\ UNCHANGED <<view, entry, qcLoading, qcError, uploadReq, uploadId, mounted,
                   qcRequest>>
    /\ UNCHANGED reviewVars
    /\ UNCHANGED <<summaryVars, authVars, localUsername>>

\* Faulty variant: one file is enough to submit.
handleSubmitLoose ==
    /\ view = "upload"
    /\ ~qcLoading
    /\ IF files = {}
       THEN /\ qcError' = "Please upload all three PDF files"
            /\ UNCHANGED <<qcLoading, uploadReq, qcRequest>>
       ELSE /\ qcError' = ""
            /\ qcLoading' = TRUE
            /\ uploadReq' = "inflight"
            /\ qcRequest' = QCRequest(files, localUsername)
    /\ UNCHANGED <<view, entry, files, uploadId, mounted>>
    /\ UNCHANGED reviewVars
    /\ UNCHANGED <<summaryVars, authVars, localUsername>>

\* handleSubmit up to the await of fetch.
handleSubmit ==
    /\ view = "upload"
    /\ ~qcLoading
    /\ IF files # QCFields
       THEN /\ qcError' = "Please upload all three PDF files"
            /\ UNCHANGED <<qcLoading, uploadReq, qcRequest>>
       ELSE /\ qcError' = ""
            /\ qcLoading' = TRUE
            /\ uploadReq' = "inflight"
            /\ qcRequest' = QCRequest(files, localUsername)
    /\ UNCHANGED <<view, entry, files, uploadId, mounted>>
    /\ UNCHANGED reviewVars
    /\ UNCHANGED <<summaryVars, authVars, localUsername>>

\* The rest of handleSubmit: a rejected fetch, a non-ok status, a body that
\* does not parse and a null body end in catch; every other body reaches
\* router.push with whatever data.upload_id is.
handleSubmitResponse ==
    /\ view = "upload"
    /\ uploadReq = "inflight"
    /\ \E u \in UploadResponses :
          IF u \in {"noid", "id"}
          THEN /\ view' = "review"
               /\ uploadId' = IF u = "id" THEN "u1" ELSE "undefined"
               /\ UNCHANGED qcError
          ELSE /\ qcError' = UploadErrorMessage(u)
               /\ UNCHANGED <<view, uploadId>>
    /\ qcLoading' = FALSE
    /\ uploadReq' = "done"
    /\ UNCHANGED <<entry, files, mounted, qcRequest>>
    /\ UNCHANGED reviewVars
    /\ UNCHANGED <<summaryVars, authVars, localUsername>>

\* The review page mounts and its effect runs for the first time.
MountReview ==
    /\ view \in {"review", "reviewQc"}
    /\ ~mounted
    /\ nReq = 0
    /\ mounted' = TRUE
    /\ inflight' = inflight \cup {pollCount}
    /\ nReq' = nReq + 1
    /\ UNCHANGED <<view, entry, uploadId, loading, error, results, pollCount,
                   timers, handled, onlyNotReady, sawPrimary>>
    /\ UNCHANGED uploadVars
    /\ UNCHANGED <<summaryVars, authVars, localUsername>>

\* A status request settles and its continuation runs.  The setters only
\* act on a mounted component; setTimeout acts regardless.
StatusResponse ==
    /\ \E c \in inflight, r \in StatusResponses :
          LET out == Continuation(view, r, c) IN
          /\ inflight' = inflight \ {c}
          /\ timers' = IF out.timer THEN timers + 1 ELSE timers
          /\ results' = IF mounted /\ out.setRes THEN r ELSE results
          /\ error' = IF mounted /\ out.err # "" THEN out.err ELSE error
          /\ loading' = IF mounted /\ (out.setRes \/ out.err # "")
                        THEN FALSE ELSE loading
          /\ handled' = [r |-> r, pc |-> c]
          /\ onlyNotReady' = (onlyNotReady /\ NotReady(r))
          /\ sawPrimary' = (sawPrimary \/ HasPrimary(r))
    /\ UNCHANGED <<view, entry, uploadId, mounted, pollCount, nReq>>
    /\ UNCHANGED uploadVars
    /\ UNCHANGED <<summaryVars, authVars, localUsername>>

\* Faulty variant: the timer repeats, as one set with setInterval would.
TimerFireRepeats ==
    /\ timers > 0
    /\ UNCHANGED timers
    /\ IF mounted
       THEN /\ pollCount' = pollCount + 1
            /\ inflight' = inflight \cup {pollCount + 1}
            /\ nReq' = nReq + 1
       ELSE UNCHANGED <<pollCount, inflight, nReq>>
    /\ handled' = [r |-> NullResult, pc |-> 0]
    /\ UNCHANGED <<view, entry, uploadId, mounted, loading, error, results,
                   onlyNotReady, sawPrimary>>
    /\ UNCHANGED uploadVars
    /\ UNCHANGED <<summaryVars, authVars, localUsername>>

\* A timer fires: setPollCount((p) => p + 1); on a mounted page the effect
\* re-runs with the new pollCount and issues the next request.
TimerFire ==
    /\ timers > 0
    /\ timers' = timers - 1
    /\ IF mounted
       THEN /\ pollCount' = pollCount + 1
            /\ inflight' = inflight \cup {pollCount + 1}
            /\ nReq' = nReq + 1
       ELSE UNCHANGED <<pollCount, inflight, nReq>>
    /\ handled' = [r |-> NullResult, pc |-> 0]
    /\ UNCHANGED <<view, entry, uploadId, mounted, loading, error, results,
                   onlyNotReady, sawPrimary>>
    /\ UNCHANGED uploadVars
    /\ UNCHANGED <<summaryVars, authVars, localUsername>>

\* The user navigates away from the review page.  The effect returns no
\* cleanup function, so nothing is cancelled.
Unmount ==
    /\ mounted
    /\ mounted' = FALSE
    /\ handled' = [r |-> NullResult, pc |-> 0]
    /\ UNCHANGED <<view, entry, uploadId, loading, error, results, pollCount,
                   inflight, timers, nReq, onlyNotReady, sawPrimary>>
    /\ UNCHANGED uploadVars
    /\ UNCHANGED <<summaryVars, authVars, localUsername>>

\* The review page was mounted and has been left.
Left == ~mounted /\ nReq > 0

Next ==
    \/ handleFileChange
    \/ handleSubmit
    \/ handleSubmitResponse
    \/ MountReview
    \/ StatusResponse
    \/ TimerFire
    \/ Unmount

Spec == Init /\ [][Next]_vars

\* The browser delivers every response and fires every timer.
FairSpec == Spec /\ WF_vars(StatusResponse) /\ WF_vars(TimerFire) /\ WF_vars(MountReview)

(***************************************************************************)
(* SummaryPage                                                             *)
(***************************************************************************)
\* {!uploadResult?.success && ( ...carrier form and buttons... )}
\* on the summary route.
FormShown ==
    /\ route = "/summary"
    /\ ~(uploadResult # NoUploadResult /\ uploadResult.success)

\* {uploadResult?.success && uploadResult.carriers && ( ...review, "Back to
\* Edit" and "Confirm Execution"... )} on the summary route.
ReviewShown ==
    /\ route = "/summary"
    /\ uploadResult # NoUploadResult
    /\ uploadResult.success
    /\ uploadResult.hasCarriers

SummaryInit ==
    /\ user = "mudassir"
    /\ SignedIn(user)
    /\ SummaryState
    /\ view = "upload"
    /\ entry = "upload"
    /\ uploadId = ""
    /\ localUsername = ""
    /\ QCState

\* Faulty variant: the new entry's id is the list's length plus one.
addCarrierIdFromLength ==
    /\ FormShown
    /\ Len(carriers) < MaxCarriers
    /\ nextId <= MaxId
    /\ carriers' = Append(carriers, NewCarrier(Len(carriers) + 1))
    /\ nextId' = nextId + 1
    /\ alert' = ""
    /\ request' = NoRequest
    /\ UNCHANGED <<user, isExecuting, uploadResult, uploadError, pending>>
    /\ UNCHANGED <<route, analysis>>
    /\ UNCHANGED <<qcVars, authVars>>

addCarrier ==
    /\ FormShown
    /\ Len(carriers) < MaxCarriers
    /\ nextId <= MaxId
    /\ carriers' = Append(carriers, NewCarrier(nextId))
    /\ nextId' = nextId + 1
    /\ alert' = ""
    /\ request' = NoRequest
    /\ UNCHANGED <<user, isExecuting, uploadResult, uploadError, pending>>
    /\ UNCHANGED <<route, analysis>>
    /\ UNCHANGED <<qcVars, authVars>>

\* carriers.filter(c => c.id !== id)
WithoutId(cs, id) == SelectSeq(cs, LAMBDA c : c.id # id)

\* Faulty variant: the list is filtered whatever its length.
removeCarrierUnguarded ==
    /\ FormShown
    /\ \E id \in 1..MaxId : carriers' = WithoutId(carriers, id)
    /\ alert' = ""
    /\ request' = NoRequest
    /\ UNCHANGED <<user, nextId, isExecuting, uploadResult, uploadError, pending>>
    /\ UNCHANGED <<route, analysis>>
    /\ UNCHANGED <<qcVars, authVars>>

removeCarrier ==
    /\ FormShown
    /\ \E id \in 1..MaxId :
          IF Len(carriers) > 1
          THEN /\ carriers' = WithoutId(carriers, id)
               /\ alert' = ""
          ELSE /\ alert' = "You must have at least one carrier"
               /\ UNCHANGED carriers
    /\ request' = NoRequest
    /\ UNCHANGED <<user, nextId, isExecuting, uploadResult, uploadError, pending>>
    /\ UNCHANGED <<route, analysis>>
    /\ UNCHANGED <<qcVars, authVars>>

handleNameChange ==
    /\ FormShown
    /\ \E id \in 1..MaxId, value \in CarrierNames :
          carriers' = [i \in 1..Len(carriers) |->
                          IF carriers[i].id = id
                          THEN [carriers[i] EXCEPT !.name = value]
                          ELSE carriers[i]]
    /\ alert' = ""
    /\ request' = NoRequest
    /\ UNCHANGED <<user, nextId, isExecuting, uploadResult, uploadError, pending>>
    /\ UNCHANGED <<route, analysis>>
    /\ UNCHANGED <<qcVars, authVars>>

\* Faulty variant: the attached file is stored in both slots of the entry.
fileUploadedBothSlots(cs, id, type, file) ==
    [i \in 1..Len(cs) |->
        IF cs[i].id = id
        THEN [cs[i] EXCEPT !.propertyPDF = file, !.liabilityPDF = file]
        ELSE cs[i]]

\* carriers.map(c => c.id === id ? (type === 'property'
\*     ? { ...c, propertyPDF: { file, name: file.name } }
\*     : { ...c, liabilityPDF: { file, name: file.name } }) : c)
fileUploaded(cs, id, type, file) ==
    [i \in 1..Len(cs) |->
        IF cs[i].id = id
        THEN IF type = "property"
             THEN [cs[i] EXCEPT !.propertyPDF = file]
             ELSE [cs[i] EXCEPT !.liabilityPDF = file]
        ELSE cs[i]]

\* handleFileUpload(id, type, file)
handleFileUploadOf(id, type, file) ==
    carriers' = fileUploaded(carriers, id, type, file)

handleFileUpload ==
    /\ FormShown
    /\ \E id \in 1..MaxId, type \in {"property", "liability"}, file \in PdfFiles :
          handleFileUploadOf(id, type, file)
    /\ alert' = ""
    /\ request' = NoRequest
    /\ UNCHANGED <<user, nextId, isExecuting, uploadResult, uploadError, pending>>
    /\ UNCHANGED <<route, analysis>>
    /\ UNCHANGED <<qcVars, authVars>>

\* handleExecute up to the await of fetch; the button is disabled while
\* isExecuting.
handleExecute ==
    /\ FormShown
    /\ ~isExecuting
    /\ IF ~isValid(carriers)
       THEN /\ alert' = "Please fill in all carrier names"
            /\ request' = NoRequest
            /\ UNCHANGED <<isExecuting, uploadResult, uploadError, pending>>
       ELSE IF ~hasAnyFiles(carriers)
       THEN /\ alert' = "Please upload at least one PDF across all carriers"
            /\ request' = NoRequest
            /\ UNCHANGED <<isExecuting, uploadResult, uploadError, pending>>
       ELSE /\ isExecuting' = TRUE
            /\ uploadError' = ""
            /\ uploadResult' = NoUploadResult
            /\ request' = UploadRequest(carriers, user)
            /\ pending' = TRUE
            /\ alert' = ""
    /\ UNCHANGED <<user, carriers, nextId>>
    /\ UNCHANGED <<route, analysis>>
    /\ UNCHANGED <<qcVars, authVars>>

\* The rest of handleExecute: setUploadResult(data) when nothing was thrown,
\* setUploadError otherwise, and setIsExecuting(false) in finally.
\* What the rest of handleExecute does with response r.
handleExecuteResponseOf(r) ==
    /\ pending
    /\ IF UploadThrows(r) = ""
       THEN /\ uploadResult' = IF r.body = "null" THEN NoUploadResult ELSE r
            /\ UNCHANGED uploadError
       ELSE /\ uploadError' = UploadThrows(r)
            /\ UNCHANGED uploadResult
    /\ isExecuting' = FALSE
    /\ pending' = FALSE

handleExecuteResponse ==
    /\ \E r \in SummaryResponses : handleExecuteResponseOf(r)
    /\ alert' = ""
    /\ request' = NoRequest
    /\ UNCHANGED <<user, carriers, nextId>>
    /\ UNCHANGED <<route, analysis>>
    /\ UNCHANGED <<qcVars, authVars>>

\* "Back to Edit": setUploadResult(null); the button is rendered under
\* {uploadResult?.success && uploadResult.carriers && ...}
backToEdit ==
    /\ ReviewShown
    /\ uploadResult' = NoUploadResult
    /\ alert' = ""
    /\ request' = NoRequest
    /\ UNCHANGED <<user, carriers, nextId, isExecuting, uploadError, pending>>
    /\ UNCHANGED <<route, analysis>>
    /\ UNCHANGED <<qcVars, authVars>>

\* handleConfirmExecution up to its await: setIsExecuting(true),
\* setUploadError(''), then either the throw for a missing upload id, caught
\* by the handler's own catch and finally, or the quality-analysis request.
\* The button is disabled while isExecuting.
handleConfirmExecution ==
    /\ ReviewShown
    /\ ~isExecuting
    /\ IF uploadResult.uploadId = ""
       THEN /\ uploadError' = "Missing uploadId. Please execute upload first."
            /\ UNCHANGED <<isExecuting, analysis>>
       ELSE /\ isExecuting' = TRUE
            /\ uploadError' = ""
            /\ analysis' = AnalysisRequest(uploadResult.uploadId)
    /\ alert' = ""
    /\ request' = NoRequest
    /\ UNCHANGED <<user, carriers, nextId, uploadResult, pending, route>>
    /\ UNCHANGED <<qcVars, authVars>>

\* What the rest of handleConfirmExecution does with response r:
\* router.push('/summary/confirmed') when nothing was thrown, setUploadError
\* otherwise, and setIsExecuting(false) in finally.
handleConfirmResponseOf(r) ==
    /\ analysis.sent
    /\ IF ConfirmThrows(r) = ""
       THEN /\ route' = "/summary/confirmed"
            /\ UNCHANGED uploadError
       ELSE /\ uploadError' = ConfirmThrows(r)
            /\ UNCHANGED route
    /\ isExecuting' = FALSE
    /\ analysis' = NoAnalysis

handleConfirmResponse ==
    /\ \E r \in AnalysisResponses : handleConfirmResponseOf(r)
    /\ alert' = ""
    /\ request' = NoRequest
    /\ UNCHANGED <<user, carriers, nextId, uploadResult, pending>>
    /\ UNCHANGED <<qcVars, authVars>>

SummaryNext ==
    \/ addCarrier
    \/ removeCarrier
    \/ handleNameChange
    \/ handleFileUpload
    \/ handleExecute
    \/ handleExecuteResponse
    \/ backToEdit
    \/ handleConfirmExecution
    \/ handleConfirmResponse

SummarySpec == SummaryInit /\ [][SummaryNext]_vars

\* The carrier list under its four editing handlers alone.
CarrierListNext ==
    \/ addCarrier
    \/ removeCarrier
    \/ handleNameChange
    \/ handleFileUpload

CarrierListSpec == SummaryInit /\ [][CarrierListNext]_vars

(***************************************************************************)
(* AuthProvider                                                            *)
(***************************************************************************)
\* A page load of every tab, whatever its storage holds: useState initial
\* values, the mount effect not yet run.
AuthInit ==
    /\ sessionStorage \in [Tabs -> StoredValues]
    /\ authMounted = [t \in Tabs |-> FALSE]
    /\ authUser = [t \in Tabs |-> NoUser]
    /\ isLoggedIn = [t \in Tabs |-> FALSE]
    /\ authLoading = [t \in Tabs |-> TRUE]
    /\ calls = [t \in Tabs |-> {}]
    /\ settled = NoCall
    /\ guard = [t \in Tabs |-> "none"]
    /\ user = "mudassir"
    /\ SummaryState
    /\ view = "upload"
    /\ entry = "upload"
    /\ uploadId = ""
    /\ localUsername = ""
    /\ QCState

\* useEffect(() => { ... }, []) of AuthProvider in tab t.
mountEffectOf(t) ==
    /\ ~authMounted[t]
    /\ authMounted' = [authMounted EXCEPT ![t] = TRUE]
    /\ IF sessionStorage[t] # NoItem /\ ~JsonParse(sessionStorage[t]).throws
       THEN /\ authUser' = [authUser EXCEPT ![t] = JsonParse(sessionStorage[t]).value]
            /\ isLoggedIn' = [isLoggedIn EXCEPT ![t] = TRUE]
       ELSE UNCHANGED <<authUser, isLoggedIn>>
    /\ authLoading' = [authLoading EXCEPT ![t] = FALSE]
    /\ settled' = NoCall
    /\ UNCHANGED <<sessionStorage, calls>>

mountEffect ==
    /\ \E t \in Tabs : mountEffectOf(t)
    /\ UNCHANGED <<qcVars, summaryVars, guard>>

\* login / register up to the await of fetch.
authCall(t, kind, username) ==
    /\ authMounted[t]
    /\ Cardinality(calls[t]) < MaxCalls
    /\ authLoading' = [authLoading EXCEPT ![t] = TRUE]
    /\ calls' = [calls EXCEPT ![t] = @ \cup {[kind |-> kind, username |-> username]}]
    /\ settled' = NoCall
    /\ UNCHANGED <<authMounted, authUser, isLoggedIn, sessionStorage>>

login ==
    /\ \E t \in Tabs, username \in TypedNames : authCall(t, "login", username)
    /\ UNCHANGED <<qcVars, summaryVars, guard>>

register ==
    /\ \E t \in Tabs, username \in TypedNames : authCall(t, "register", username)
    /\ UNCHANGED <<qcVars, summaryVars, guard>>

\* Faulty variant: the entry is written to a storage that the tabs share.
authResponseSharedStorage(t, c, r) ==
    /\ c \in calls[t]
    /\ calls' = [calls EXCEPT ![t] = @ \ {c}]
    /\ IF AuthThrows(c.kind, r) = ""
       THEN /\ authUser' = [authUser EXCEPT ![t] = UserData(r.username)]
            /\ isLoggedIn' = [isLoggedIn EXCEPT ![t] = TRUE]
            /\ sessionStorage' = [u \in Tabs |-> JsonStringify(UserData(r.username))]
       ELSE UNCHANGED <<authUser, isLoggedIn, sessionStorage>>
    /\ authLoading' = [authLoading EXCEPT ![t] = FALSE]
    /\ settled' = [tab |-> t, kind |-> c.kind, username |-> c.username,
                   raised |-> AuthThrows(c.kind, r)]
    /\ UNCHANGED authMounted

\* Faulty variant: a failed call ends the tab's session.
authResponseLogsOutOnFailure(t, c, r) ==
    /\ c \in calls[t]
    /\ calls' = [calls EXCEPT ![t] = @ \ {c}]
    /\ IF AuthThrows(c.kind, r) = ""
       THEN /\ authUser' = [authUser EXCEPT ![t] = UserData(r.username)]
            /\ isLoggedIn' = [isLoggedIn EXCEPT ![t] = TRUE]
            /\ sessionStorage' =
                  [sessionStorage EXCEPT ![t] = JsonStringify(UserData(r.username))]
       ELSE /\ authUser' = [authUser EXCEPT ![t] = NoUser]
            /\ isLoggedIn' = [isLoggedIn EXCEPT ![t] = FALSE]
            /\ sessionStorage' = [sessionStorage EXCEPT ![t] = NoItem]
    /\ authLoading' = [authLoading EXCEPT ![t] = FALSE]
    /\ settled' = [tab |-> t, kind |-> c.kind, username |-> c.username,
                   raised |-> AuthThrows(c.kind, r)]
    /\ UNCHANGED authMounted

\* Faulty variant: the session takes the username that was typed.
authResponseStoresTyped(t, c, r) ==
    /\ c \in calls[t]
    /\ calls' = [calls EXCEPT ![t] = @ \ {c}]
    /\ IF AuthThrows(c.kind, r) = ""
       THEN /\ authUser' = [authUser EXCEPT ![t] = UserData(c.username)]
            /\ isLoggedIn' = [isLoggedIn EXCEPT ![t] = TRUE]
            /\ sessionStorage' =
                  [sessionStorage EXCEPT ![t] = JsonStringify(UserData(c.username))]
       ELSE UNCHANGED <<authUser, isLoggedIn, sessionStorage>>
    /\ authLoading' = [authLoading EXCEPT ![t] = FALSE]
    /\ settled' = [tab |-> t, kind |-> c.kind, username |-> c.username,
                   raised |-> AuthThrows(c.kind, r)]
    /\ UNCHANGED authMounted

\* The rest of login / register in tab t for call c on response r.
authResponseOf(t, c, r) ==
    /\ c \in calls[t]
    /\ calls' = [calls EXCEPT ![t] = @ \ {c}]
    /\ IF AuthThrows(c.kind, r) = ""
       THEN /\ authUser' = [authUser EXCEPT ![t] = UserData(r.username)]
            /\ isLoggedIn' = [isLoggedIn EXCEPT ![t] = TRUE]
            /\ sessionStorage' =
                  [sessionStorage EXCEPT ![t] = JsonStringify(UserData(r.username))]
       ELSE UNCHANGED <<authUser, isLoggedIn, sessionStorage>>
    /\ authLoading' = [authLoading EXCEPT ![t] = FALSE]
    /\ settled' = [tab |-> t, kind |-> c.kind, username |-> c.username,
                   raised |-> AuthThrows(c.kind, r)]
    /\ UNCHANGED authMounted

loginResponse ==
    /\ \E t \in Tabs, c \in Calls, r \in AuthResponses :
          c.kind = "login" /\ authResponseOf(t, c, r)
    /\ UNCHANGED <<qcVars, summaryVars, guard>>

registerResponse ==
    /\ \E t \in Tabs, c \in Calls, r \in AuthResponses :
          c.kind = "register" /\ authResponseOf(t, c, r)
    /\ UNCHANGED <<qcVars, summaryVars, guard>>

\* Faulty variant: logout does nothing in a tab that is not logged in.
logoutOfWhenLoggedIn(t) ==
    /\ authMounted[t]
    /\ IF isLoggedIn[t]
       THEN /\ authUser' = [authUser EXCEPT ![t] = NoUser]
            /\ isLoggedIn' = [isLoggedIn EXCEPT ![t] = FALSE]
            /\ sessionStorage' = [sessionStorage EXCEPT ![t] = NoItem]
       ELSE UNCHANGED <<authUser, isLoggedIn, sessionStorage>>
    /\ settled' = [tab |-> t, kind |-> "logout", username |-> "", raised |-> ""]
    /\ UNCHANGED <<authMounted, authLoading, calls>>

\* logout() in tab t
logoutOf(t) ==
    /\ authMounted[t]
    /\ authUser' = [authUser EXCEPT ![t] = NoUser]
    /\ isLoggedIn' = [isLoggedIn EXCEPT ![t] = FALSE]
    /\ sessionStorage' = [sessionStorage EXCEPT ![t] = NoItem]
    /\ settled' = [tab |-> t, kind |-> "logout", username |-> "", raised |-> ""]
    /\ UNCHANGED <<authMounted, authLoading, calls>>

logout ==
    /\ \E t \in Tabs : logoutOf(t)
    /\ UNCHANGED <<qcVars, summaryVars, guard>>

\* Tab t loads the page again: the provider starts from its initial state,
\* the calls in flight are dropped with the old page, the storage stays.
reloadOf(t) ==
    /\ authMounted[t]
    /\ authMounted' = [authMounted EXCEPT ![t] = FALSE]
    /\ authUser' = [authUser EXCEPT ![t] = NoUser]
    /\ isLoggedIn' = [isLoggedIn EXCEPT ![t] = FALSE]
    /\ authLoading' = [authLoading EXCEPT ![t] = TRUE]
    /\ calls' = [calls EXCEPT ![t] = {}]
    /\ settled' = NoCall
    /\ UNCHANGED sessionStorage

reload ==
    /\ \E t \in Tabs : reloadOf(t)
    /\ UNCHANGED <<qcVars, summaryVars, guard>>

AuthNext ==
    \/ mountEffect
    \/ login
    \/ register
    \/ loginResponse
    \/ registerResponse
    \/ logout
    \/ reload

AuthSpec == AuthInit /\ [][AuthNext]_vars

(***************************************************************************)
(* DashboardPage under AuthProvider                                        *)
(***************************************************************************)
\* The effect of DashboardPage, run after a render that saw isLoggedIn as
\* loggedIn: if (!isLoggedIn) router.push('/login').  The provider's loading
\* flag is not read.
GuardEffect(loggedIn) == IF loggedIn THEN "shown" ELSE "redirect"

\* Tab t loads /dashboard: the provider and the page mount in one commit,
\* and the effects of that commit run with the values of its render, the
\* page's before the provider's.
loadDashboardOf(t) ==
    /\ guard[t] = "none"
    /\ guard' = [guard EXCEPT ![t] = GuardEffect(isLoggedIn[t])]
    /\ mountEffectOf(t)

loadDashboard ==
    /\ \E t \in Tabs : loadDashboardOf(t)
    /\ UNCHANGED <<qcVars, summaryVars>>

\* Tab t, its provider mounted, navigates to /dashboard inside the
\* application: the page mounts and its effect runs.
openDashboardOf(t) ==
    /\ authMounted[t]
    /\ guard[t] = "none"
    /\ guard' = [guard EXCEPT ![t] = GuardEffect(isLoggedIn[t])]
    /\ settled' = NoCall
    /\ UNCHANGED <<authMounted, authUser, isLoggedIn, authLoading,
                   sessionStorage, calls>>

openDashboard ==
    /\ \E t \in Tabs : openDashboardOf(t)
    /\ UNCHANGED <<qcVars, summaryVars>>

\* The effect runs again after a render of the mounted page in which
\* isLoggedIn has become false.
guardEffect ==
    /\ \E t \in Tabs :
          /\ guard[t] = "shown"
          /\ ~isLoggedIn[t]
          /\ guard' = [guard EXCEPT ![t] = GuardEffect(isLoggedIn[t])]
    /\ settled' = NoCall
    /\ UNCHANGED <<authMounted, authUser, isLoggedIn, authLoading,
                   sessionStorage, calls>>
    /\ UNCHANGED <<qcVars, summaryVars>>

\* The tab shows another route: after router.push('/login'), or by a link
\* of the dashboard.
leaveDashboard ==
    /\ \E t \in Tabs :
          /\ guard[t] # "none"
          /\ guard' = [guard EXCEPT ![t] = "none"]
    /\ settled' = NoCall
    /\ UNCHANGED <<authMounted, authUser, isLoggedIn, authLoading,
                   sessionStorage, calls>>
    /\ UNCHANGED <<qcVars, summaryVars>>

\* Tab t is loaded again: the page shown goes with the provider's state.
reloadTab ==
    /\ \E t \in Tabs :
          /\ reloadOf(t)
          /\ guard' = [guard EXCEPT ![t] = "none"]
    /\ UNCHANGED <<qcVars, summaryVars>>

GuardNext ==
    \/ mountEffect
    \/ login
    \/ loginResponse
    \/ logout
    \/ loadDashboard
    \/ openDashboard
    \/ guardEffect
    \/ leaveDashboard
    \/ reloadTab

GuardSpec == AuthInit /\ [][GuardNext]_vars

(***************************************************************************)
(* Properties of the quality-control flow                                  *)
(***************************************************************************)
\* The step just taken ran the continuation of the mounted page `v` on a
\* status response.
JustHandled(v) == view = v /\ mounted /\ handled.r # NullResult

PrimaryOnly(r) ==
    /\ r.net = "ok" /\ r.status = 200 /\ r.body = "json"
    /\ r.success /\ r.hasData /\ r.llm
    /\ r.flagged # "nonempty"

\* C2: below the secondary deadline the poller does not resolve on a response
\* that carries only llm_results (it stays loading, stores nothing and has
\* scheduled the next poll), whatever it stored as the result below that
\* deadline carries a non-empty flagged_results, and a response with both
\* payloads is stored at once.
C2_ResolvesOnlyOnSecondary ==
    /\ (JustHandled("review") /\ PrimaryOnly(handled.r)
            /\ handled.pc < SecondaryDeadline)
         => (loading /\ results = NullResult /\ error = "" /\ timers = 1)
    /\ (view = "review" /\ results # NullResult /\ pollCount < SecondaryDeadline)
         => results.flagged = "nonempty"
    /\ (JustHandled("review") /\ handled.r = Json200(TRUE, TRUE, TRUE, "nonempty"))
         => (~loading /\ results = handled.r /\ error = "" /\ timers = 0)

\* The third response of [404, 404, primary only, full] has been handled.
C2_Witness ==
    /\ JustHandled("review")
    /\ handled = [r |-> Json200(TRUE, TRUE, TRUE, "absent"), pc |-> 2]
    /\ loading /\ timers = 1

\* C3: the poll count never passes the secondary deadline, and a primary-only
\* response handled at that deadline resolves with the primary payload alone:
\* results is that response, loading is false, no error, nothing scheduled.
C3_ResolvesAtSecondaryDeadline ==
    /\ view = "review" => pollCount <= SecondaryDeadline
    /\ (JustHandled("review") /\ PrimaryOnly(handled.r)
            /\ handled.pc >= SecondaryDeadline)
         => /\ results = handled.r
            /\ ~loading
            /\ error = ""
            /\ timers = 0 /\ inflight = {}

C3_Witness ==
    /\ JustHandled("review")
    /\ PrimaryOnly(handled.r)
    /\ handled.pc = SecondaryDeadline
    /\ results = handled.r /\ ~loading

\* A parsed 2xx body that lacks the primary payload.
LacksPayload(r) ==
    /\ r.net = "ok" /\ r.status = 200 /\ r.body = "json"
    /\ ~(r.success /\ r.llm)
    /\ ~(r.success /\ ~r.hasData)

Is404(r) == r.net = "ok" /\ r.status = 404

\* The page kept polling / gave up after the response just handled.
KeptPolling == loading /\ error = "" /\ results = NullResult /\ timers = 1
GaveUp == ~loading /\ error # "" /\ results = NullResult /\ timers = 0
              /\ inflight = {}

Failure(r) ==
    \/ r.net = "fail"
    \/ r.net = "ok" /\ r.status = 500
    \/ r.net = "ok" /\ r.status = 200 /\ r.body \in {"garbage", "null"}
    \/ r.net = "ok" /\ r.status = 200 /\ r.body = "json" /\ r.success /\ ~r.hasData

C6_FailureRetriedUntilFirstDeadline ==
    \A v \in {"review", "reviewQc"} :
        (JustHandled(v) /\ Failure(handled.r))
            => IF handled.pc < FirstDeadline
               THEN loading /\ error = "" /\ timers = 1
               ELSE ~loading /\ error # "" /\ timers = 0 /\ inflight = {}

\* A rejected fetch was retried, and one at the deadline ended polling.
C6_Witness ==
    /\ JustHandled("review")
    /\ handled.r = NetFail
    /\ handled.pc = FirstDeadline
    /\ ~loading /\ error = "Failed to fetch"

\* C8: a stored result is a parsed 2xx body with success true and
\* data.llm_results present.  Both review pages.
C8_StoredResultValidates ==
    results # NullResult =>
        /\ results.net = "ok" /\ results.status = 200 /\ results.body = "json"
        /\ results.success /\ results.hasData /\ results.llm

C8_Witness ==
    /\ view = "reviewQc"
    /\ results = Json200(TRUE, TRUE, TRUE, "absent")
    /\ ~loading

\* C9: after the review page is left no timer is pending.
C9_NoTimerAfterUnmount == Left => timers = 0

\* C10: in the upload flow a status request is issued only after the upload
\* request completed and yielded an upload id.
C10_PollOnlyAfterUploadId ==
    (entry = "upload" /\ nReq > 0) => (uploadReq = "done" /\ uploadId = "u1")

\* C5: while every handled response was a 404 or a 2xx body without the
\* payload, at most 121 status requests are issued, results stays null, and
\* a page that stopped loading shows an error with nothing scheduled; and the
\* mounted page does reach that error state.
C5_Bounded ==
    (view = "review" /\ onlyNotReady) =>
        /\ nReq <= SecondaryDeadline + 1
        /\ results = NullResult
        /\ ~loading => (error # "" /\ timers = 0 /\ inflight = {})

C5_EndsInError ==
    /\ []C5_Bounded
    /\ (view = "review" /\ mounted)
         ~> (\/ ~mounted
             \/ ~onlyNotReady
             \/ ~loading /\ error # "" /\ results = NullResult)

\* Only payload-less 2xx responses and 404s arrived and the page timed out.
C5_Witness ==
    /\ view = "review" /\ mounted /\ onlyNotReady
    /\ pollCount = SecondaryDeadline
    /\ ~loading
    /\ error = "Processing timeout - no results available"
    /\ results = NullResult

\* C7: results and error are never both set; once loading is false nothing
\* is in flight or scheduled, no further status request is issued, and
\* results, error and loading keep their values.
C7_Resolved ==
    /\ ~(results # NullResult /\ error # "")
    /\ ~loading => (timers = 0 /\ inflight = {})

C7_Frozen ==
    ~loading => /\ results' = results
                /\ error' = error
                /\ loading' = loading
                /\ nReq' = nReq
                /\ timers' = timers
                /\ inflight' = inflight

C7_ResolvesOnce == []C7_Resolved /\ [][C7_Frozen]_vars

\* The page resolved with a result and was left afterwards.
C7_Witness ==
    /\ view = "review" /\ Left
    /\ ~loading /\ results # NullResult /\ error = ""

\* C23: the username field of every upload request QCUploadPage sends is the
\* username of the tab's session.
C23_UploadUsernameIsSession ==
    qcRequest.sent => qcRequest.username = user

\* C24: handleSubmit called with fewer than the three files sets the
\* validation error, sends nothing and leaves loading false; an upload
\* request is only ever issued with all three files, and carries them.
C24_StrictSubmission ==
    [][/\ handleSubmit /\ files # {"policy", "property_cert", "gl_cert"} =>
             /\ qcError' = "Please upload all three PDF files"
             /\ ~qcLoading'
             /\ UNCHANGED <<uploadReq, qcRequest>>
       /\ uploadReq' = "inflight" /\ uploadReq # "inflight" =>
             /\ files = {"policy", "property_cert", "gl_cert"}
             /\ qcRequest'.sent
             /\ qcRequest'.fields = {"policy", "property_cert", "gl_cert"}]_vars

\* handleSubmit has just refused a form with two of the three files.
C24_Witness ==
    /\ view = "upload"
    /\ qcError = "Please upload all three PDF files"
    /\ Cardinality(files) = 2
    /\ ~qcLoading
    /\ uploadReq = "none" /\ ~qcRequest.sent

\* C25: the page under app/qc/review/[uploadId], while mounted, is never
\* loading with no status request in flight and no poll timer pending.
C25_NeverStuckLoading ==
    view = "reviewQc" /\ mounted => ~(loading /\ inflight = {} /\ timers = 0)

\* C26: once a status response has carried the primary payload, the page
\* reached from the upload page, while mounted, never shows an error.
C26_NoErrorAfterPrimary ==
    view = "review" /\ mounted /\ sawPrimary => error = ""

\* C27: while a review page is mounted, status requests in flight and poll
\* timers pending number at most one together, and the poll count is the
\* number of requests issued less one; a step that issues a request while
\* the page stays mounted finds no request in flight and the one pending
\* timer, consumes that timer, and raises the poll count and the number of
\* requests by one.
C27_OnePollOutstanding ==
    /\ [](mounted =>
             /\ Cardinality(inflight) + timers <= 1
             /\ nReq = pollCount + 1)
    /\ [][mounted /\ mounted' /\ nReq' # nReq =>
             /\ inflight = {} /\ timers = 1
             /\ timers' = 0 /\ inflight' = {pollCount'}
             /\ pollCount' = pollCount + 1
             /\ nReq' = nReq + 1]_vars

\* The page reached from the upload page is at its third status request,
\* with nothing else outstanding.
C27_Witness ==
    /\ view = "review" /\ mounted
    /\ pollCount = 2 /\ nReq = 3
    /\ inflight = {2} /\ timers = 0
    /\ loading

(***************************************************************************)
(* Properties of SummaryPage                                               *)
(***************************************************************************)
\* C1: every upload request handleExecute sends carries the header X-User-ID
\* with the username of the active session.
C1_UploadCarriesUserId ==
    request.sent => \E h \in request.headers : h[1] = "X-User-ID" /\ h[2] = user

\* Some carrier's name is empty or consists of white space only.
SomeNameBlank == \E i \in 1..Len(carriers) : carriers[i].name \in {"", " "}

\* No entry of the carrier list has a file in either slot.
NoFileAttached ==
    \A i \in 1..Len(carriers) :
        carriers[i].propertyPDF = "" /\ carriers[i].liabilityPDF = ""

\* C11: while some carrier name is blank, or no file is attached anywhere in
\* the list, no step sends an upload request or puts one in flight, and a
\* handleExecute step leaves isExecuting, uploadResult and uploadError as
\* they were.
C11_NoRequestWhenInvalid ==
    [][(SomeNameBlank \/ NoFileAttached) =>
          /\ ~request'.sent
          /\ pending' => pending
          /\ handleExecute => UNCHANGED <<isExecuting, uploadResult, uploadError>>]_vars

\* handleExecute has just refused a list with a blank name, with the error
\* of an earlier failed upload still on display.
C11_Witness ==
    /\ alert = "Please fill in all carrier names"
    /\ SomeNameBlank
    /\ uploadError # ""
    /\ ~isExecuting

\* C12: the carrier list never has fewer than one entry, and removeCarrier
\* called on a list of one entry leaves the list as it was.
C12_AtLeastOneCarrier ==
    /\ [](Len(carriers) >= 1)
    /\ [][Len(carriers) = 1 /\ removeCarrier => UNCHANGED carriers]_vars

\* removeCarrier has just refused to remove the only entry, which had been
\* edited before.
C12_Witness ==
    /\ alert = "You must have at least one carrier"
    /\ Len(carriers) = 1
    /\ carriers[1].name = "State Farm"
    /\ carriers[1].propertyPDF # ""

\* The ids of the entries of carrier list cs.
IdsOf(cs) == {cs[i].id : i \in 1..Len(cs)}

\* C13: the ids in the carrier list are pairwise distinct and all below
\* nextId; nextId never decreases; and an addCarrier step keeps the entries
\* it found, in order, and appends exactly one entry whose id is not below
\* the old nextId (so it is no id issued before, removed or not) and is below
\* the new nextId.
C13_FreshIds ==
    /\ [](/\ \A i, j \in 1..Len(carriers) : carriers[i].id = carriers[j].id => i = j
          /\ \A i \in 1..Len(carriers) : carriers[i].id < nextId)
    /\ [][/\ nextId' >= nextId
          /\ addCarrier =>
                /\ Len(carriers') = Len(carriers) + 1
                /\ SubSeq(carriers', 1, Len(carriers)) = carriers
                /\ carriers'[Len(carriers')].id >= nextId
                /\ carriers'[Len(carriers')].id \notin IdsOf(carriers)
                /\ carriers'[Len(carriers')].id < nextId']_vars

\* The entry with id 1 was removed and two entries were added since: they
\* got the ids 2 and 3.
C13_Witness ==
    /\ Len(carriers) = 2
    /\ carriers[1].id = 2
    /\ carriers[2].id = 3
    /\ nextId = 4

\* The file in the slot of kind `type` of carrier entry c.
SlotOf(c, type) == IF type = "property" THEN c.propertyPDF ELSE c.liabilityPDF

OtherType(type) == IF type = "property" THEN "liability" ELSE "property"

\* C14: a handleFileUpload(id, type, file) step puts `file` in the slot
\* `type` of the entry with that id and changes nothing else: that entry's
\* id, name and other slot, every other entry, and the list's length and
\* order stay as they were; for an id that is not in the list the whole
\* list stays as it was.
C14_FileUploadTouchesOneSlot ==
    [][\A id \in 1..MaxId, type \in {"property", "liability"}, file \in PdfFiles :
          handleFileUploadOf(id, type, file) =>
             /\ Len(carriers') = Len(carriers)
             /\ \A i \in 1..Len(carriers) :
                   IF carriers[i].id = id
                   THEN /\ SlotOf(carriers'[i], type) = file
                        /\ SlotOf(carriers'[i], OtherType(type)) =
                              SlotOf(carriers[i], OtherType(type))
                        /\ carriers'[i].id = carriers[i].id
                        /\ carriers'[i].name = carriers[i].name
                   ELSE carriers'[i] = carriers[i]
             /\ id \notin IdsOf(carriers) => carriers' = carriers]_vars

\* The second of two entries had b.pdf attached to its liability slot, over
\* another file, next to a named first entry with a property file.
C14_Witness ==
    /\ Len(carriers) = 2
    /\ carriers[1].name = "State Farm" /\ carriers[1].propertyPDF = "a.pdf"
    /\ carriers[1].liabilityPDF = ""
    /\ carriers[2].liabilityPDF = "b.pdf" /\ carriers[2].propertyPDF = "a.pdf"

\* A tag with carrierIndex idx and the given type is among the file_metadata
\* parts of the request just sent.
TagSent(idx, type) ==
    \E k \in 1..Len(request.file_metadata) :
        /\ request.file_metadata[k].carrierIndex = idx
        /\ request.file_metadata[k].type = type

\* C15: the request handleExecute sends describes the carrier list exactly:
\* carriers_json has one entry per carrier, in list order, with the carrier's
\* name; its hasProperty (hasLiability) is true exactly when the carrier has
\* a property (liability) file, and exactly when a tag with that entry's
\* index, counted from 0, and type property (liability) was sent.
C15_DescriptorMatchesTags ==
    request.sent =>
        /\ Len(request.carriers_json) = Len(carriers)
        /\ \A i \in 1..Len(carriers) :
              /\ request.carriers_json[i].name = carriers[i].name
              /\ request.carriers_json[i].hasProperty = (carriers[i].propertyPDF # "")
              /\ request.carriers_json[i].hasLiability = (carriers[i].liabilityPDF # "")
              /\ request.carriers_json[i].hasProperty = TagSent(i - 1, "property")
              /\ request.carriers_json[i].hasLiability = TagSent(i - 1, "liability")
        /\ \A k \in 1..Len(request.file_metadata) :
              request.file_metadata[k].carrierIndex \in 0..(Len(carriers) - 1)

\* A request was sent for two carriers, the first with a liability file only
\* and the second with a property file only.
C15_Witness ==
    /\ request.sent
    /\ Len(carriers) = 2
    /\ carriers[1].propertyPDF = "" /\ carriers[1].liabilityPDF # ""
    /\ carriers[2].propertyPDF # "" /\ carriers[2].liabilityPDF = ""

\* The slots of the carrier list that hold a file.
AttachedSlots ==
    {<<i, type>> \in (1..Len(carriers)) \X {"property", "liability"} :
        SlotOf(carriers[i], type) # ""}

\* C16: the request has as many file parts as tags and as attached slots; the
\* k-th tag names the slot the k-th file comes from; and the parts follow the
\* carrier list's order, a carrier's property file before its liability file.
C16_FilesAlignWithTags ==
    request.sent =>
        /\ Len(request.files) = Len(request.file_metadata)
        /\ Len(request.files) = Cardinality(AttachedSlots)
        /\ \A k \in 1..Len(request.file_metadata) :
              /\ <<request.file_metadata[k].carrierIndex + 1,
                   request.file_metadata[k].type>> \in AttachedSlots
              /\ request.files[k] =
                    SlotOf(carriers[request.file_metadata[k].carrierIndex + 1],
                           request.file_metadata[k].type)
        /\ \A k, l \in 1..Len(request.file_metadata) :
              k < l =>
                 \/ request.file_metadata[k].carrierIndex <
                       request.file_metadata[l].carrierIndex
                 \/ /\ request.file_metadata[k].carrierIndex =
                          request.file_metadata[l].carrierIndex
                    /\ request.file_metadata[k].type = "property"
                    /\ request.file_metadata[l].type = "liability"

\* A request was sent with three files, two of them those of one carrier.
C16_Witness ==
    /\ request.sent
    /\ Len(request.files) = 3
    /\ request.files[1] # request.files[2]
    /\ carriers[1].propertyPDF # "" /\ carriers[1].liabilityPDF # ""

\* The response has a non-success HTTP status or a body that is not JSON.
FailedUpload(r) == r.net = "ok" /\ (~r.ok \/ r.body = "garbage")

\* C17: when the upload's response has a non-success status or an unparsable
\* body, handleExecute ends with isExecuting false, a non-empty uploadError
\* and uploadResult null; if the body is a JSON object with a message, error
\* or detail, uploadError is the first of these, in that order, that the body
\* provides.
C17_FailedUploadSetsError ==
    [][\A r \in SummaryResponses :
          handleExecuteResponseOf(r) /\ FailedUpload(r) =>
             /\ uploadError' # ""
             /\ uploadResult' = NoUploadResult
             /\ ~isExecuting'
             /\ r.body = "json" /\ r.message # "" => uploadError' = r.message
             /\ r.body = "json" /\ r.message = "" /\ r.error # "" =>
                   uploadError' = r.error
             /\ r.body = "json" /\ r.message = "" /\ r.error = "" /\ r.detail # "" =>
                   uploadError' = r.detail]_vars

\* A submission has ended with the error text of a non-success response whose
\* body has no message but an error and a detail.
C17_Witness ==
    /\ uploadError = "err"
    /\ uploadResult = NoUploadResult
    /\ ~isExecuting /\ ~pending
    /\ alert = "" /\ ~request.sent

(***************************************************************************)
(* Properties of AuthProvider                                              *)
(***************************************************************************)
\* The step leaves the session of tab t, in memory and in storage, as it was.
SessionKept(t) ==
    /\ authUser'[t] = authUser[t]
    /\ isLoggedIn'[t] = isLoggedIn[t]
    /\ sessionStorage'[t] = sessionStorage[t]

\* The backend answered with an error status, or the request failed.
FailedAuth(r) == r.net = "fail" \/ ~r.ok

\* C18: a login or register call that ends on an error response or a network
\* failure raises an error and leaves user, isLoggedIn and the stored entry
\* of its tab as they were before the response.
C18_FailedAuthKeepsSession ==
    [][\A t \in Tabs : \A c \in calls[t] : \A r \in AuthResponses :
          FailedAuth(r) /\ authResponseOf(t, c, r) =>
             /\ SessionKept(t)
             /\ settled'.raised # ""]_vars

\* A login has just failed in a tab that holds the session of "mudassir",
\* in memory and in storage.
C18_Witness ==
    /\ settled.kind = "login"
    /\ settled.raised = "Login failed"
    /\ isLoggedIn[settled.tab]
    /\ authUser[settled.tab] = UserData("mudassir")
    /\ sessionStorage[settled.tab] = JsonStringify(UserData("mudassir"))

\* The text holds a record whose username is one of Usernames.
HoldsValidUsername(text) ==
    /\ text # NoItem
    /\ ~JsonParse(text).throws
    /\ ~JsonParse(text).value.isNull
    /\ JsonParse(text).value.username \in Usernames

\* C19: once a tab's provider has mounted, the tab has a session in memory
\* (isLoggedIn true and user not null) if and only if its storage holds a
\* record with a valid username.
C19_SessionIffStored ==
    \A t \in Tabs :
        authMounted[t] =>
            ((isLoggedIn[t] /\ ~authUser[t].isNull) <=>
                HoldsValidUsername(sessionStorage[t]))

\* C20: a register call never both raises an error and changes the session:
\* if it raises, user, isLoggedIn and the stored entry stay as they were, and
\* if it does not, the tab is logged in.  On a success response that echoes a
\* username it raises nothing and the session, in memory and as read back
\* from storage, has the echoed username; on an error response with a detail
\* it raises an error with that detail as its message and leaves the session
\* as it was.
C20_RegisterSessionOrError ==
    [][\A t \in Tabs : \A c \in calls[t] : \A r \in AuthResponses :
          c.kind = "register" /\ authResponseOf(t, c, r) =>
             /\ settled'.raised # "" => SessionKept(t)
             /\ settled'.raised = "" => isLoggedIn'[t] /\ ~authUser'[t].isNull
             /\ r.net = "ok" /\ r.ok /\ r.body = "json" /\ r.username \in Usernames =>
                   /\ settled'.raised = ""
                   /\ isLoggedIn'[t]
                   /\ authUser'[t] = UserData(r.username)
                   /\ ~JsonParse(sessionStorage'[t]).throws
                   /\ JsonParse(sessionStorage'[t]).value = UserData(r.username)
             /\ r.net = "ok" /\ ~r.ok /\ r.body = "json" /\ r.detail # "" =>
                   /\ settled'.raised = r.detail
                   /\ SessionKept(t)]_vars

\* A register call typed as "Mudassir" has just succeeded and the session
\* has the username "mudassir" that the backend echoed.
C20_Witness ==
    /\ settled.kind = "register"
    /\ settled.raised = ""
    /\ settled.username = "Mudassir"
    /\ isLoggedIn[settled.tab]
    /\ authUser[settled.tab] = UserData("mudassir")
    /\ sessionStorage[settled.tab] = JsonStringify(UserData("mudassir"))

\* Tab t has no session, in memory or in storage.
Anonymous(t) ==
    /\ authUser[t] = NoUser
    /\ ~isLoggedIn[t]
    /\ sessionStorage[t] = NoItem

\* C21: a logout step leaves its tab with user null, isLoggedIn false and no
\* stored entry, whatever the tab held before; taken in a tab that is
\* already in that state (as after a first logout) it changes nothing of
\* the tab's state.
C21_LogoutIdempotent ==
    [][\A t \in Tabs :
          logoutOf(t) =>
             /\ authUser'[t] = NoUser
             /\ ~isLoggedIn'[t]
             /\ sessionStorage'[t] = NoItem
             /\ Anonymous(t) =>
                   UNCHANGED <<authUser, isLoggedIn, sessionStorage, authLoading,
                               calls, authMounted>>]_vars

\* logout has just run in a tab that has a login or register call in flight.
C21_Witness ==
    /\ settled.kind = "logout"
    /\ Anonymous(settled.tab)
    /\ calls[settled.tab] # {}

\* What the mount effect makes of the stored text: the user and isLoggedIn
\* of a freshly loaded page whose storage holds `text`.
Restored(text) ==
    IF text # NoItem /\ ~JsonParse(text).throws
    THEN [user |-> JsonParse(text).value, isLoggedIn |-> TRUE]
    ELSE [user |-> NoUser, isLoggedIn |-> FALSE]

C28_ExactlyOneOutcome ==
    [][\A r \in SummaryResponses :
          handleExecuteResponseOf(r) =>
              /\ isExecuting' = FALSE
              /\ (uploadResult'.success) # (uploadError' # "")]_vars

\* The quality-analysis answer that lets the try block run to its end.
AnalysisSucceeded(r) == r.net = "ok" /\ r.ok /\ r.body = "json" /\ r.success

\* C29: a quality-analysis request is issued only for the upload id of the
\* stored upload result, which is then non-empty; Confirm Execution on a
\* result without upload id sends nothing, sets the upload error and leaves
\* isExecuting false; the route changes only in a step that handles a
\* quality-analysis answer with a success status and success true; every
\* other answer leaves the route alone, sets the upload error and leaves
\* isExecuting false.
C29_ConfirmNavigatesOnSuccessOnly ==
    /\ [][analysis'.sent /\ analysis' # analysis =>
             /\ uploadResult.uploadId # ""
             /\ analysis'.uploadId = uploadResult.uploadId]_vars
    /\ [][handleConfirmExecution /\ uploadResult.uploadId = "" =>
             /\ ~analysis'.sent
             /\ uploadError' # ""
             /\ ~isExecuting'
             /\ route' = route]_vars
    /\ [][route' # route =>
             /\ route' = "/summary/confirmed"
             /\ \E r \in AnalysisResponses :
                    handleConfirmResponseOf(r) /\ AnalysisSucceeded(r)]_vars
    /\ [][\A r \in AnalysisResponses :
             handleConfirmResponseOf(r) /\ ~AnalysisSucceeded(r) =>
                 /\ route' = route
                 /\ uploadError' # ""
                 /\ ~isExecuting']_vars

\* The confirmed page has been reached for the upload id "u1".
C29_Witness ==
    /\ route = "/summary/confirmed"
    /\ uploadResult.uploadId = "u1"
    /\ ~isExecuting

(***************************************************************************)
(* Properties of DashboardPage                                             *)
(***************************************************************************)
\* C30: a step in which a tab mounts the dashboard while the tab's storage
\* holds a valid persisted session does not issue the redirect to /login.
C30_NoRedirectWithStoredSession ==
    [][\A t \in Tabs :
          /\ guard[t] = "none"
          /\ guard'[t] # "none"
          /\ HoldsValidUsername(sessionStorage[t])
          => guard'[t] # "redirect"]_vars

====
